---- MODULE Spec2Model ----
(***************************************************************************)
(* A model of three routines of LibTomMath:                                *)
(*   s_mp_mul_comba  (src/s_mp_mul_comba.c)   column-wise multiplier       *)
(*   s_mp_toom_sqr   (src/bn_s_mp_toom_sqr.c) Toom-Cook 3-way squaring     *)
(*   mp_jacobi       (src/bn_mp_jacobi.c)     domain check + delegation    *)
(* Each routine has its own specification (SpecMul, SpecSqr, SpecJac): the *)
(* initial states enumerate the arguments of one call, the actions are the *)
(* steps of that call.                                                     *)
(***************************************************************************)
EXTENDS Integers, Sequences, FiniteSets, TLC

VARIABLES obj, heap, mul, mulIn, sqr, jac

vars == <<obj, heap, mul, mulIn, sqr, jac>>

(***************************************************************************)
(* Bounds of the model.                                                    *)
(***************************************************************************)
\* longest operand (in digits) handed to s_mp_mul_comba
MaxUsed == 4

(***************************************************************************)
(* Library constants (tommath.h / tommath_private.h).                      *)
(***************************************************************************)
\* width W of one digit; the radix is R = 2^W.  The library fixes W when
\* it is built (28, 60, ...); the routines are the same for every W, and
\* the model takes the narrowest digit so that operands long enough for
\* the unrolled loop and for three limbs can all be enumerated.
MP_DIGIT_BIT == 1
MP_RADIX == 2 ^ MP_DIGIT_BIT
MP_MASK == MP_RADIX - 1
\* number of bits of the C type mp_digit (it has at least one spare bit)
MP_DIGIT_TYPE_BITS == MP_DIGIT_BIT + 1
MP_DIGIT_TYPE_MOD == 2 ^ MP_DIGIT_TYPE_BITS

MP_ZPOS == "MP_ZPOS"
MP_NEG == "MP_NEG"

MP_OKAY == "MP_OKAY"
MP_MEM == "MP_MEM"
MP_VAL == "MP_VAL"

MP_LT == "MP_LT"
MP_EQ == "MP_EQ"
MP_GT == "MP_GT"

MP_MIN(x, y) == IF x < y THEN x ELSE y
MP_MAX(x, y) == IF x > y THEN x ELSE y

Digit == 0 .. MP_MASK

(***************************************************************************)
(* Digit sequences.  A buffer is a sequence of digits; C index i is TLA+   *)
(* index i + 1.                                                            *)
(***************************************************************************)
\* the value of the low n digits of buffer d, least significant digit first
RECURSIVE MagOf(_, _)
MagOf(d, n) == IF n <= 0 THEN 0 ELSE d[1] + MP_RADIX * MagOf(Tail(d), n - 1)

Zeros(n) == [i \in 1 .. n |-> 0]

\* d extended with zero digits to n entries (never shortened)
PadTo(d, n) == IF Len(d) >= n THEN d ELSE d \o Zeros(n - Len(d))

\* all canonical digit strings of at most n digits (no leading zero digit)
CanonSeqs(n) ==
    { s \in UNION { [1 .. k -> Digit] : k \in 0 .. n } :
        Len(s) = 0 \/ s[Len(s)] # 0 }

(***************************************************************************)
(* Memory.  obj maps the name of an mp_int structure to its fields, dp     *)
(* being the number of a heap buffer (NULL_DP: no buffer); heap maps a     *)
(* buffer number to its digits and whether it is still allocated.  "x",    *)
(* "y" and "z" are the caller's integers, "tmp" is the local of            *)
(* s_mp_mul_comba.                                                         *)
(***************************************************************************)
NULL_DP == "NULL"
CallerObjs == {"x", "y", "z"}
ObjIds == CallerObjs \cup {"tmp"}
BufIds == {"bx", "by", "bz", "bt"}

\* the buffer mp_init_size hands to tmp
TmpBuf == "bt"

MkInt(sign, used, alloc, dp) ==
    [sign |-> sign, used |-> used, alloc |-> alloc, dp |-> dp]

NoInt == MkInt(MP_ZPOS, 0, 0, NULL_DP)
NoBuf == [live |-> FALSE, d |-> <<>>]

\* a->dp[i] is a defined read: the buffer exists and holds index i
ValidIdx(h, o, i) ==
    /\ o.dp # NULL_DP
    /\ h[o.dp].live
    /\ i >= 0
    /\ i < Len(h[o.dp].d)

\* the digit a->dp[i]; an out-of-range read yields the arbitrary digit g
DpRead(h, o, i, g) == IF ValidIdx(h, o, i) THEN h[o.dp].d[i + 1] ELSE g

\* magnitude of the integer held by structure o
ObjMag(h, o) == IF o.used = 0 THEN 0 ELSE MagOf(h[o.dp].d, o.used)

(***************************************************************************)
(* Collaborators of s_mp_mul_comba, by their contracts.                    *)
(***************************************************************************)
\* mp_clamp: strip leading zero digits; returns the new used count
RECURSIVE ClampUsed(_, _)
ClampUsed(d, used) ==
    IF used > 0 /\ d[used] = 0 THEN ClampUsed(d, used - 1) ELSE used

\* mp_clamp: zero is always positive
ClampSign(sign, used) == IF used = 0 THEN MP_ZPOS ELSE sign

\* s_mp_zero_digs(d + from, count): clears count digits starting at from
ZeroDigs(d, from, count) ==
    [i \in 1 .. Len(d) |-> IF i - 1 >= from /\ i - 1 < from + count THEN 0 ELSE d[i]]

\* mp_grow(c, size) has to reallocate
GrowNeeded(o, size) == o.alloc < size

(***************************************************************************)
(* s_mp_mul_comba                                                          *)
(***************************************************************************)
\* MP_ALIAS(a, c) || MP_ALIAS(b, c)
mul_Aliased(a, b, c) == a = c \/ b = c

\* the structure the columns are written to (c_)
mul_DestNoTmp(a, b, c) == c
mul_Dest(a, b, c) == IF mul_Aliased(a, b, c) THEN "tmp" ELSE c

\* pa: the number of output digits to produce
mul_Pa(digs, aused, bused) == MP_MIN(digs, aused + bused)

\* the offsets of column ix and the number of terms in it
mul_OffsetsLong(ix, aused, bused) ==
    LET ty == MP_MIN(bused - 1, ix)
        tx == ix - ty
    IN  [tx |-> tx, ty |-> ty, iy |-> ty + 1]
mul_Offsets(ix, aused, bused) ==
    LET ty == MP_MIN(bused - 1, ix)
        tx == ix - ty
    IN  [tx |-> tx, ty |-> ty, iy |-> MP_MIN(aused - tx, ty + 1)]

\* one multiply-accumulate into the three-digit accumulator
\* (mp_word is twice as wide as mp_digit: w does not overflow)
mul_AccDropCarry(st, x, y) ==
    LET w1 == st.c0 + x * y
        w2 == st.c1 + (w1 \div MP_RADIX)
    IN  [st EXCEPT !.c0 = w1 % MP_RADIX, !.c1 = w2 % MP_RADIX]
mul_Acc(st, x, y) ==
    LET w1 == st.c0 + x * y
        w2 == st.c1 + (w1 \div MP_RADIX)
    IN  [st EXCEPT !.c0 = w1 % MP_RADIX,
                   !.c1 = w2 % MP_RADIX,
                   !.c2 = (st.c2 + (w2 \div MP_RADIX)) % MP_DIGIT_TYPE_MOD]

\* the body shared by every iteration: read a->dp[tx+iz], b->dp[ty-iz],
\* accumulate, ++iz; ra and rb collect the indices read
mul_Term(st, h, A, B, off, g) ==
    LET ia == off.tx + st.iz
        ib == off.ty - st.iz
        acc == mul_Acc(st, DpRead(h, A, ia, g), DpRead(h, B, ib, g))
    IN  [acc EXCEPT !.iz = st.iz + 1,
                    !.ra = st.ra \cup {ia},
                    !.rb = st.rb \cup {ib}]

\* for (iz = 0; iz + 3 < iy;) { four terms }
RECURSIVE mul_Unrolled(_, _, _, _, _, _)
mul_Unrolled(st, h, A, B, off, g) ==
    IF st.iz + 3 < off.iy
    THEN mul_Unrolled(
             mul_Term(mul_Term(mul_Term(mul_Term(st, h, A, B, off, g),
                                        h, A, B, off, g),
                               h, A, B, off, g),
                      h, A, B, off, g),
             h, A, B, off, g)
    ELSE st

\* for (; iz < iy;) { one term }
RECURSIVE mul_Rest(_, _, _, _, _, _)
mul_Rest(st, h, A, B, off, g) ==
    IF st.iz < off.iy
    THEN mul_Rest(mul_Term(st, h, A, B, off, g), h, A, B, off, g)
    ELSE st

\* both inner loops of column ix, from the carries c0, c1, c2
mul_ColumnSum(c0, c1, c2, h, A, B, off, g) ==
    LET u == mul_Unrolled([c0 |-> c0, c1 |-> c1, c2 |-> c2, iz |-> 0,
                           ra |-> {}, rb |-> {}, un |-> 0],
                          h, A, B, off, g)
    IN  \* un: the terms the unrolled loop took
        mul_Rest([u EXCEPT !.un = u.iz], h, A, B, off, g)

\* line 114: clear unused digits [that existed in the old copy of c]
mul_ClearOldNone(d, used, oldused) == d
mul_ClearOld(d, used, oldused) == ZeroDigs(d, used, oldused - used)

\* the locals of s_mp_mul_comba before the call
MulIdle ==
    [pc |-> "idle", a |-> "x", b |-> "x", c |-> "x", digs |-> 0, c_ |-> "x",
     pa |-> 0, ix |-> 0, c0 |-> 0, c1 |-> 0, c2 |-> 0, err |-> MP_OKAY,
     ra |-> {}, rb |-> {}, wr |-> {}, un |-> 0, ub |-> FALSE]

\* lines 29-41, mp_init_size(&tmp, digs) or mp_grow(c, digs) succeeds:
\* the destination has room for digs digits, pa is set, the carries cleared
mul_PrepareOk ==
    /\ mul.pc = "call"
    /\ LET dst == mul_Dest(mul.a, mul.b, mul.c)
           C == obj[mul.c]
       IN  /\ IF dst = "tmp"
              THEN /\ obj' = [obj EXCEPT !["tmp"] =
                                 MkInt(MP_ZPOS, 0, mul.digs, TmpBuf)]
                   /\ heap' = [heap EXCEPT ![TmpBuf] =
                                 [live |-> TRUE, d |-> Zeros(mul.digs)]]
              ELSE IF GrowNeeded(C, mul.digs)
              THEN /\ obj' = [obj EXCEPT ![mul.c].alloc = mul.digs]
                   /\ heap' = [heap EXCEPT ![C.dp].d = PadTo(@, mul.digs)]
              ELSE UNCHANGED <<obj, heap>>
           /\ mul' = [mul EXCEPT !.pc = "loop",
                                 !.c_ = dst,
                                 !.pa = mul_Pa(mul.digs, obj[mul.a].used,
                                               obj[mul.b].used),
                                 !.ix = 0, !.c0 = 0, !.c1 = 0, !.c2 = 0]
    /\ UNCHANGED <<mulIn, sqr, jac>>

\* lines 30-35, the allocation fails: return err, nothing was touched
mul_PrepareFail ==
    /\ mul.pc = "call"
    /\ \/ mul_Dest(mul.a, mul.b, mul.c) = "tmp"
       \/ GrowNeeded(obj[mul.c], mul.digs)
    /\ mul' = [mul EXCEPT !.pc = "done", !.err = MP_MEM]
    /\ UNCHANGED <<obj, heap, mulIn, sqr, jac>>

\* lines 42-107, one iteration of the column loop
mul_Column ==
    /\ mul.pc = "loop"
    /\ mul.ix < mul.pa
    /\ LET A == obj[mul.a]
           B == obj[mul.b]
           D == obj[mul.c_]
           off == mul_Offsets(mul.ix, A.used, B.used)
           stored == ValidIdx(heap, D, mul.ix)
       IN  \E probe \in {mul_ColumnSum(mul.c0, mul.c1, mul.c2,
                                       heap, A, B, off, 0)} :
           \E wild \in {\/ \E i \in probe.ra : ~ValidIdx(heap, A, i)
                        \/ \E i \in probe.rb : ~ValidIdx(heap, B, i)} :
           \* a read outside the buffer yields any digit
           \E g \in (IF wild THEN Digit ELSE {0}) :
           \E st \in {IF wild
                      THEN mul_ColumnSum(mul.c0, mul.c1, mul.c2,
                                         heap, A, B, off, g)
                      ELSE probe} :
             /\ \* store term: c_->dp[ix] = c0; a store outside the
                \* buffer lands nowhere or in some other live buffer
                IF stored
                THEN heap' = [heap EXCEPT ![D.dp].d[mul.ix + 1] = st.c0]
                ELSE \/ heap' = heap
                     \/ \E v \in BufIds :
                          /\ heap[v].live
                          /\ Len(heap[v].d) > 0
                          /\ heap' = [heap EXCEPT ![v].d[1] = st.c0]
             /\ \* make next carry
                mul' = [mul EXCEPT !.ix = mul.ix + 1,
                                   !.c0 = st.c1, !.c1 = st.c2, !.c2 = 0,
                                   !.ra = st.ra, !.rb = st.rb,
                                   !.wr = {mul.ix},
                                   !.un = MP_MAX(mul.un, st.un),
                                   !.ub = mul.ub \/ wild \/ ~stored]
    /\ UNCHANGED <<obj, mulIn, sqr, jac>>

\* lines 109-123: set used, clear the old digits above it, clamp, and move
\* tmp into c when the destination was an operand
mul_Finish ==
    /\ mul.pc = "loop"
    /\ mul.ix >= mul.pa
    /\ LET D == obj[mul.c_]
           oldused == D.used
       IN  \E zeroed \in {mul_ClearOld(heap[D.dp].d, mul.pa, oldused)} :
           \E used \in {ClampUsed(zeroed, MP_MIN(mul.pa, Len(zeroed)))} :
           LET res == [D EXCEPT !.used = used,
                                !.sign = ClampSign(D.sign, used)]
               h1 == [heap EXCEPT ![D.dp].d = zeroed]
           IN
           IF mul.c_ = "tmp"
           THEN /\ heap' = IF obj[mul.c].dp = NULL_DP
                           THEN h1
                           ELSE [h1 EXCEPT ![obj[mul.c].dp].live = FALSE]
                /\ obj' = [obj EXCEPT ![mul.c] = res, !["tmp"] = res]
           ELSE /\ heap' = h1
                /\ obj' = [obj EXCEPT ![mul.c_] = res]
    /\ mul' = [mul EXCEPT !.pc = "done", !.err = MP_OKAY,
                          !.ub = mul.ub \/ mul.pa > obj[mul.c_].alloc]
    /\ UNCHANGED <<mulIn, sqr, jac>>

(***************************************************************************)
(* The routine run from start to end on operands av, bv with a separate,   *)
(* freshly initialised destination: the digits it leaves and its used.     *)
(***************************************************************************)
RECURSIVE mul_Columns(_, _, _, _, _, _, _, _, _)
mul_Columns(ix, pa, c0, c1, c2, h, A, B, out) ==
    IF ix < pa
    THEN LET st == mul_ColumnSum(c0, c1, c2, h, A, B,
                                 mul_Offsets(ix, A.used, B.used), 0)
         IN  mul_Columns(ix + 1, pa, st.c1, st.c2, 0, h, A, B,
                         [out EXCEPT ![ix + 1] = st.c0])
    ELSE out

mul_Separate(av, bv, digs) ==
    LET h == [k \in BufIds |->
                IF k = "bx" THEN [live |-> TRUE, d |-> av]
                ELSE IF k = "by" THEN [live |-> TRUE, d |-> bv]
                ELSE NoBuf]
        A == MkInt(MP_ZPOS, Len(av), Len(av), "bx")
        B == MkInt(MP_ZPOS, Len(bv), Len(bv), "by")
        pa == mul_Pa(digs, Len(av), Len(bv))
        out == mul_Columns(0, pa, 0, 0, 0, h, A, B, Zeros(digs))
    IN  [d |-> out, used |-> ClampUsed(out, pa)]

(***************************************************************************)
(* Integers by value.  mp_jacobi and s_mp_toom_sqr reach the digits only   *)
(* through other routines of the library, so their integers are records of *)
(* sign, used and the used digits (least significant first).               *)
(***************************************************************************)
MkVal(sign, dp) == [sign |-> sign, used |-> Len(dp), dp |-> dp]

ZeroVal == MkVal(MP_ZPOS, <<>>)

\* the integer an mp_int stands for
IntOf(m) ==
    IF m.sign = MP_NEG THEN 0 - MagOf(m.dp, m.used) ELSE MagOf(m.dp, m.used)

\* the digits of the natural number v, least significant first
RECURSIVE DigitsOf(_)
DigitsOf(v) ==
    IF v = 0 THEN <<>> ELSE <<v % MP_RADIX>> \o DigitsOf(v \div MP_RADIX)

Abs(v) == IF v < 0 THEN 0 - v ELSE v

\* the canonical mp_int that stands for the integer v
ValOf(v) == MkVal(IF v < 0 THEN MP_NEG ELSE MP_ZPOS, DigitsOf(Abs(v)))

\* canonical form of a value record
CanonicalVal(m) ==
    /\ m.used = Len(m.dp)
    /\ \A i \in 1 .. m.used : m.dp[i] \in Digit
    /\ m.used > 0 => m.dp[m.used] # 0
    /\ m.used = 0 => m.sign = MP_ZPOS

\* all canonical integers of at most n digits, of either sign
SignedVals(n) ==
    { MkVal(sg, d) : sg \in {MP_ZPOS, MP_NEG}, d \in CanonSeqs(n) }
        \ { MkVal(MP_NEG, <<>>) }

(***************************************************************************)
(* mp_jacobi                                                               *)
(***************************************************************************)
\* longest operand (in digits) handed to mp_jacobi
MaxJacUsed == 3

\* mp_isneg(a)
mp_isneg(a) == a.sign = MP_NEG

\* mp_cmp_d(a, b): compare a with the single digit b
mp_cmp_d(a, b) ==
    IF a.sign = MP_NEG THEN MP_LT
    ELSE IF a.used > 1 THEN MP_GT
    ELSE LET d0 == IF a.used = 0 THEN 0 ELSE a.dp[1]
         IN  IF d0 > b THEN MP_GT ELSE IF d0 < b THEN MP_LT ELSE MP_EQ

\* lines 21-29: the two checks that return MP_VAL
jac_RejectsNegativeOnly(a, n) == mp_isneg(a) \/ mp_cmp_d(n, 0) = MP_LT
jac_Rejects(a, n) == mp_isneg(a) \/ mp_cmp_d(n, 0) # MP_GT

\* what *c can hold before the call: a symbol value or anything else
JacOldC == {-1, 0, 1, 2}

\* the results mp_kronecker can return, and the symbol it stores on success
KroneckerCodes == {MP_OKAY, MP_MEM}
KroneckerSymbols == {-1, 0, 1}

JacIdle ==
    [pc |-> "idle", a |-> ZeroVal, n |-> ZeroVal, c |-> 0, c0 |-> 0,
     ret |-> MP_OKAY, calls |-> <<>>]

\* lines 22-29: a < 0 or n <= 0, return MP_VAL
jac_DomainError ==
    /\ jac.pc = "call"
    /\ jac_Rejects(jac.a, jac.n)
    /\ jac' = [jac EXCEPT !.pc = "done", !.ret = MP_VAL]
    /\ UNCHANGED <<obj, heap, mul, mulIn, sqr>>

\* line 31: return mp_kronecker(a, n, c); the evaluator is outside this
\* code: it returns some result code and, on success, stores a symbol in *c
jac_Delegate ==
    /\ jac.pc = "call"
    /\ ~jac_Rejects(jac.a, jac.n)
    /\ \E code \in KroneckerCodes, sym \in KroneckerSymbols :
         /\ code # MP_OKAY => sym = 0
         /\ jac' = [jac EXCEPT
                      !.pc = "done",
                      !.calls = Append(@, [a |-> jac.a, n |-> jac.n,
                                           c |-> "c", ret |-> code]),
                      !.c = IF code = MP_OKAY THEN sym ELSE @,
                      !.ret = code]
    /\ UNCHANGED <<obj, heap, mul, mulIn, sqr>>

(***************************************************************************)
(* Collaborators of s_mp_toom_sqr, by their arithmetic contracts.  Each    *)
(* returns the canonical result; a failing call leaves its destination     *)
(* as it was.                                                              *)
(***************************************************************************)
\* the canonical mp_int of the given sign and magnitude
SignMag(sign, mag) == IF mag = 0 THEN ZeroVal ELSE MkVal(sign, DigitsOf(mag))

mp_copy(x) == x
mp_add(x, y) == ValOf(IntOf(x) + IntOf(y))
mp_sub(x, y) == ValOf(IntOf(x) - IntOf(y))
mp_sqr(x) == ValOf(IntOf(x) * IntOf(x))
mp_mul_2(x) == ValOf(2 * IntOf(x))
mp_mul_d(x, k) == ValOf(k * IntOf(x))
mp_mul_2d(x, k) == ValOf((2 ^ k) * IntOf(x))

\* mp_div_2, mp_div_3: the magnitude is divided, the remainder dropped,
\* the sign kept
mp_div_2(x) == SignMag(x.sign, MagOf(x.dp, x.used) \div 2)
mp_div_3(x) == SignMag(x.sign, MagOf(x.dp, x.used) \div 3)

\* mp_mod_2d(x, k): the low k bits of the magnitude, the sign kept
mp_mod_2d(x, k) ==
    IF k <= 0 THEN ZeroVal
    ELSE IF k >= x.used * MP_DIGIT_BIT THEN x
    ELSE SignMag(x.sign, MagOf(x.dp, x.used) % (2 ^ k))

\* mp_rshd(x, k): drop the k low digits
mp_rshd(x, k) ==
    IF k <= 0 THEN x
    ELSE IF x.used <= k THEN ZeroVal
    ELSE MkVal(x.sign, SubSeq(x.dp, k + 1, x.used))

\* mp_lshd(x, k): insert k zero digits below
mp_lshd(x, k) ==
    IF k <= 0 \/ x.used = 0 THEN x ELSE MkVal(x.sign, Zeros(k) \o x.dp)

(***************************************************************************)
(* s_mp_toom_sqr                                                           *)
(***************************************************************************)
\* the nine temporaries
SqrTemps == {"w0", "w1", "w2", "w3", "w4", "tmp1", "a0", "a1", "a2"}

\* line 19: B = a->used / 3
sqr_B(used) == used \div 3

\* one collaborator call: source line, routine, operands x and y ("-" when
\* there is none), count k, destination d
Ins(line, op, x, y, k, d) ==
    [line |-> line, op |-> op, x |-> x, y |-> y, k |-> k, d |-> d]

\* lines 21-37: a = a2 * B**2 + a1 * B + a0
sqr_Split(B) ==
    << Ins(22, "mp_mod_2d", "a", "-", MP_DIGIT_BIT * B, "a0"),
       Ins(26, "mp_copy", "a", "-", 0, "a1"),
       Ins(29, "mp_rshd", "a1", "-", B, "a1"),
       Ins(30, "mp_mod_2d", "a1", "-", MP_DIGIT_BIT * B, "a1"),
       Ins(34, "mp_copy", "a", "-", 0, "a2"),
       Ins(37, "mp_rshd", "a2", "-", B * 2, "a2") >>

\* lines 39-95: the five squared evaluations w0, w4, w1, w3, w2
sqr_Evaluate ==
    << Ins(40, "mp_sqr", "a0", "-", 0, "w0"),
       Ins(45, "mp_sqr", "a2", "-", 0, "w4"),
       Ins(50, "mp_mul_2", "a0", "-", 0, "tmp1"),
       Ins(53, "mp_add", "tmp1", "a1", 0, "tmp1"),
       Ins(56, "mp_mul_2", "tmp1", "-", 0, "tmp1"),
       Ins(59, "mp_add", "tmp1", "a2", 0, "tmp1"),
       Ins(63, "mp_sqr", "tmp1", "-", 0, "w1"),
       Ins(68, "mp_mul_2", "a2", "-", 0, "tmp1"),
       Ins(71, "mp_add", "tmp1", "a1", 0, "tmp1"),
       Ins(74, "mp_mul_2", "tmp1", "-", 0, "tmp1"),
       Ins(77, "mp_add", "tmp1", "a0", 0, "tmp1"),
       Ins(81, "mp_sqr", "tmp1", "-", 0, "w3"),
       Ins(87, "mp_add", "a2", "a1", 0, "tmp1"),
       Ins(90, "mp_add", "tmp1", "a0", 0, "tmp1"),
       Ins(93, "mp_sqr", "tmp1", "-", 0, "w2") >>

\* lines 108-178: solving the matrix
sqr_InterpolateSteps ==
    << Ins(109, "mp_sub", "w1", "w4", 0, "w1"),
       Ins(113, "mp_sub", "w3", "w0", 0, "w3"),
       Ins(117, "mp_div_2", "w1", "-", 0, "w1"),
       Ins(121, "mp_div_2", "w3", "-", 0, "w3"),
       Ins(125, "mp_sub", "w2", "w0", 0, "w2"),
       Ins(128, "mp_sub", "w2", "w4", 0, "w2"),
       Ins(132, "mp_sub", "w1", "w2", 0, "w1"),
       Ins(136, "mp_sub", "w3", "w2", 0, "w3"),
       Ins(140, "mp_mul_2d", "w0", "-", 3, "tmp1"),
       Ins(143, "mp_sub", "w1", "tmp1", 0, "w1"),
       Ins(147, "mp_mul_2d", "w4", "-", 3, "tmp1"),
       Ins(150, "mp_sub", "w3", "tmp1", 0, "w3"),
       Ins(154, "mp_mul_d", "w2", "-", 3, "w2"),
       Ins(157, "mp_sub", "w2", "w1", 0, "w2"),
       Ins(160, "mp_sub", "w2", "w3", 0, "w2"),
       Ins(164, "mp_sub", "w1", "w2", 0, "w1"),
       Ins(168, "mp_sub", "w3", "w2", 0, "w3"),
       Ins(172, "mp_div_3", "w1", "-", 0, "w1"),
       Ins(176, "mp_div_3", "w3", "-", 0, "w3") >>

\* (line 109 subtracting w0 instead of w4)
sqr_InterpolateWrongRow == [sqr_InterpolateSteps EXCEPT ![1].y = "w0"]
\* (line 150 with its operands exchanged)
sqr_InterpolateSwapped ==
    [sqr_InterpolateSteps EXCEPT ![12] = Ins(150, "mp_sub", "tmp1", "w3", 0, "w3")]
sqr_Interpolate == sqr_InterpolateSteps

\* lines 180-205: shift W[n] by B*n and add them up into b
sqr_RecombineSteps(B) ==
    << Ins(181, "mp_lshd", "w1", "-", 1 * B, "w1"),
       Ins(184, "mp_lshd", "w2", "-", 2 * B, "w2"),
       Ins(187, "mp_lshd", "w3", "-", 3 * B, "w3"),
       Ins(190, "mp_lshd", "w4", "-", 4 * B, "w4"),
       Ins(194, "mp_add", "w0", "w1", 0, "b"),
       Ins(197, "mp_add", "w2", "w3", 0, "tmp1"),
       Ins(200, "mp_add", "w4", "tmp1", 0, "tmp1"),
       Ins(203, "mp_add", "tmp1", "b", 0, "b") >>

\* (line 187 shifting w3 by 2*B)
sqr_RecombineWrongShift(B) == [sqr_RecombineSteps(B) EXCEPT ![3].k = 2 * B]
sqr_Recombine(B) == sqr_RecombineSteps(B)

\* the calls of the routine in order, lines 21-205
sqr_Prog(B) ==
    sqr_Split(B) \o sqr_Evaluate \o sqr_Interpolate \o sqr_Recombine(B)

\* mp_rshd returns nothing; every other call is checked for failure
sqr_Fallible(ins) == ins.op # "mp_rshd"

\* line 208: the temporaries mp_clear_multi releases
sqr_ClearMultiMissingOne == SqrTemps \ {"tmp1"}
sqr_ClearMulti == SqrTemps

\* the integer operand r of an instruction names: a, b or a temporary
sqr_Rd(s, r) ==
    IF r = "a" THEN s.mem[s.a]
    ELSE IF r = "b" THEN s.mem[s.b]
    ELSE s.t[r]

\* the value a successful call stores in its destination
sqr_Result(s, ins) ==
    LET x == sqr_Rd(s, ins.x)
    IN  CASE ins.op = "mp_copy" -> mp_copy(x)
          [] ins.op = "mp_add" -> mp_add(x, sqr_Rd(s, ins.y))
          [] ins.op = "mp_sub" -> mp_sub(x, sqr_Rd(s, ins.y))
          [] ins.op = "mp_sqr" -> mp_sqr(x)
          [] ins.op = "mp_mul_2" -> mp_mul_2(x)
          [] ins.op = "mp_mul_d" -> mp_mul_d(x, ins.k)
          [] ins.op = "mp_mul_2d" -> mp_mul_2d(x, ins.k)
          [] ins.op = "mp_div_2" -> mp_div_2(x)
          [] ins.op = "mp_div_3" -> mp_div_3(x)
          [] ins.op = "mp_mod_2d" -> mp_mod_2d(x, ins.k)
          [] ins.op = "mp_rshd" -> mp_rshd(x, ins.k)
          [] ins.op = "mp_lshd" -> mp_lshd(x, ins.k)

\* the state after a successful call
sqr_Do(s, ins) ==
    LET v == sqr_Result(s, ins)
    IN  IF ins.d = "b"
        THEN [s EXCEPT !.mem[s.b] = v]
        ELSE [s EXCEPT !.t[ins.d] = v]

SqrIdle ==
    [pc |-> "idle", i |-> 0, a |-> "X", b |-> "X",
     mem |-> [o \in {"X", "Y"} |-> ZeroVal],
     mem0 |-> [o \in {"X", "Y"} |-> ZeroVal],
     t |-> [r \in SqrTemps |-> ZeroVal],
     live |-> {}, nrel |-> [r \in SqrTemps |-> 0],
     B |-> 0, err |-> MP_OKAY, line |-> 0]

\* lines 13-19: mp_init_multi succeeds, B is computed
sqr_InitOk ==
    /\ sqr.pc = "call"
    /\ sqr' = [sqr EXCEPT !.pc = "run", !.i = 1,
                          !.live = SqrTemps,
                          !.B = sqr_B(sqr.mem[sqr.a].used)]
    /\ UNCHANGED <<obj, heap, mul, mulIn, jac>>

\* lines 14-16: mp_init_multi fails (it has released what it had
\* initialised), return err
sqr_InitFail ==
    /\ sqr.pc = "call"
    /\ sqr' = [sqr EXCEPT !.pc = "done", !.err = MP_MEM, !.line = 14]
    /\ UNCHANGED <<obj, heap, mul, mulIn, jac>>

\* the next call succeeds; after the last one control reaches LBL_ERR
sqr_Step ==
    /\ sqr.pc = "run"
    /\ LET prog == sqr_Prog(sqr.B)
           ins == prog[sqr.i]
       IN  \E s \in {sqr_Do(sqr, ins)} :
             sqr' = [s EXCEPT !.i = sqr.i + 1,
                              !.line = ins.line,
                              !.err = MP_OKAY,
                              !.pc = IF sqr.i = Len(prog)
                                     THEN "LBL_ERR" ELSE "run"]
    /\ UNCHANGED <<obj, heap, mul, mulIn, jac>>

\* the next call fails: goto LBL_ERR
sqr_StepFail ==
    /\ sqr.pc = "run"
    /\ LET ins == sqr_Prog(sqr.B)[sqr.i]
       IN  /\ sqr_Fallible(ins)
           /\ sqr' = [sqr EXCEPT !.pc = "LBL_ERR", !.err = MP_MEM,
                                 !.line = ins.line]
    /\ UNCHANGED <<obj, heap, mul, mulIn, jac>>

\* lines 207-209: mp_clear_multi, return err
sqr_Cleanup ==
    /\ sqr.pc = "LBL_ERR"
    /\ sqr' = [sqr EXCEPT
                 !.pc = "done",
                 !.live = @ \ sqr_ClearMulti,
                 !.nrel = [r \in SqrTemps |->
                             IF r \in sqr_ClearMulti THEN @[r] + 1 ELSE @[r]],
                 !.t = [r \in SqrTemps |->
                             IF r \in sqr_ClearMulti THEN ZeroVal ELSE @[r]]]
    /\ UNCHANGED <<obj, heap, mul, mulIn, jac>>


(***************************************************************************)
(* The calls of s_mp_mul_comba the model makes: every pair of canonical    *)
(* operands of at most MaxUsed digits, every digs up to one more than the  *)
(* longest product, and every way the three arguments can share objects.   *)
(***************************************************************************)
MaxDigs == 2 * MaxUsed + 1
MaxOld == 2 * MaxUsed + 1

MulConfigs ==
    { [a |-> "x", b |-> "y", c |-> "z"],
      [a |-> "x", b |-> "y", c |-> "x"],
      [a |-> "x", b |-> "y", c |-> "y"],
      [a |-> "x", b |-> "x", c |-> "z"],
      [a |-> "x", b |-> "x", c |-> "x"] }

\* what a separate destination holds before the call: zero, or a value
\* longer than any product
DestOlds == { <<>>, [i \in 1 .. MaxOld |-> MP_MASK] }


InitMul ==
    \E cfg \in MulConfigs, av \in CanonSeqs(MaxUsed), bv \in CanonSeqs(MaxUsed),
       dv \in DestOlds, dsign \in {MP_ZPOS, MP_NEG}, digs \in 0 .. MaxDigs :
      LET val == [x |-> av, y |-> bv, z |-> dv]
          \* the routine never reads a sign: only the destination's varies
          sgn(o) == IF o = cfg.c THEN dsign ELSE MP_ZPOS
          cap == [x |-> MaxUsed, y |-> MaxUsed, z |-> Len(dv)]
          buf == [x |-> "bx", y |-> "by", z |-> "bz"]
          live(o) == o \in {cfg.a, cfg.b, cfg.c}
      IN  /\ cfg.b = "y" \/ bv = <<>>
          /\ cfg.c = "z" \/ dv = <<>>
          /\ Len(val[cfg.c]) > 0 \/ dsign = MP_ZPOS
          /\ obj = [o \in ObjIds |->
                      IF o \in CallerObjs /\ live(o)
                      THEN MkInt(sgn(o), Len(val[o]), cap[o], buf[o])
                      ELSE NoInt]
          /\ heap = [k \in BufIds |->
                      IF \E o \in CallerObjs : live(o) /\ buf[o] = k
                      THEN LET o == CHOOSE o \in CallerObjs : buf[o] = k
                           IN  [live |-> TRUE, d |-> PadTo(val[o], cap[o])]
                      ELSE NoBuf]
          /\ mul = [MulIdle EXCEPT !.pc = "call", !.a = cfg.a, !.b = cfg.b,
                                   !.c = cfg.c, !.digs = digs]
          /\ mulIn = [obj |-> obj, a |-> av,
                      b |-> IF cfg.b = "y" THEN bv ELSE av]
          /\ sqr = SqrIdle
          /\ jac = JacIdle

NextMul ==
    \/ mul_PrepareOk
    \/ mul_PrepareFail
    \/ mul_Column
    \/ mul_Finish

SpecMul == InitMul /\ [][NextMul]_vars

InitJac ==
    \E a \in SignedVals(MaxJacUsed), n \in SignedVals(MaxJacUsed),
       c \in JacOldC :
      /\ jac = [JacIdle EXCEPT !.pc = "call", !.a = a, !.n = n,
                               !.c = c, !.c0 = c]
      /\ obj = [o \in ObjIds |-> NoInt]
      /\ heap = [k \in BufIds |-> NoBuf]
      /\ mul = MulIdle
      /\ mulIn = [obj |-> obj, a |-> <<>>, b |-> <<>>]
      /\ sqr = SqrIdle

\* longest operand (in digits) handed to s_mp_toom_sqr
MaxSqrUsed == 9

\* what a separate destination holds before the call
SqrOldB == MkVal(MP_NEG, [i \in 1 .. 2 |-> MP_MASK])

InitSqr ==
    \E a \in SignedVals(MaxSqrUsed), b \in {"X", "Y"} :
      /\ LET m == [o \in {"X", "Y"} |->
                     IF o = "X" THEN a
                     ELSE IF b = "Y" THEN SqrOldB ELSE ZeroVal]
         IN  sqr = [SqrIdle EXCEPT !.pc = "call", !.a = "X", !.b = b,
                                   !.mem = m, !.mem0 = m]
      /\ obj = [o \in ObjIds |-> NoInt]
      /\ heap = [k \in BufIds |-> NoBuf]
      /\ mul = MulIdle
      /\ mulIn = [obj |-> obj, a |-> <<>>, b |-> <<>>]
      /\ jac = JacIdle

NextSqr ==
    \/ sqr_InitOk
    \/ sqr_InitFail
    \/ sqr_Step
    \/ sqr_StepFail
    \/ sqr_Cleanup

SpecSqr == InitSqr /\ [][NextSqr]_vars

NextJac ==
    \/ jac_DomainError
    \/ jac_Delegate

SpecJac == InitJac /\ [][NextJac]_vars

\* one call of any of the three routines
Init == InitMul \/ InitSqr \/ InitJac

Next ==
    \/ mul_PrepareOk
    \/ mul_PrepareFail
    \/ mul_Column
    \/ mul_Finish
    \/ sqr_InitOk
    \/ sqr_InitFail
    \/ sqr_Step
    \/ sqr_StepFail
    \/ sqr_Cleanup
    \/ jac_DomainError
    \/ jac_Delegate

Spec == Init /\ [][Next]_vars

(***************************************************************************)
(* Claims about mp_jacobi.                                                 *)
(***************************************************************************)
\* C5: mp_jacobi returns MP_VAL, without calling the Kronecker evaluator
\* and without writing c, whenever a < 0 or n <= 0; for every other input
\* (a = 0 and even n included) it calls the evaluator exactly once with the
\* unmodified a, n, c and returns that call's result code.
C5_DomainCheckThenDelegate ==
    jac.pc = "done" =>
        IF IntOf(jac.a) < 0 \/ IntOf(jac.n) <= 0
        THEN /\ jac.ret = MP_VAL
             /\ jac.calls = <<>>
             /\ jac.c = jac.c0
        ELSE /\ Len(jac.calls) = 1
             /\ jac.calls[1].a = jac.a
             /\ jac.calls[1].n = jac.n
             /\ jac.calls[1].c = "c"
             /\ jac.ret = jac.calls[1].ret

\* mp_jacobi(a, 0, c) with a > 0 has returned MP_VAL
C5_Witness ==
    /\ jac.pc = "done"
    /\ IntOf(jac.n) = 0
    /\ IntOf(jac.a) > 0
    /\ jac.ret = MP_VAL
(***************************************************************************)
(* Claims about s_mp_mul_comba.                                            *)
(***************************************************************************)
MulDone == mul.pc = "done" /\ mul.err = MP_OKAY

\* the operands as they were when the call was made
MulAUsed == Len(mulIn.a)
MulBUsed == Len(mulIn.b)
MulAMag == MagOf(mulIn.a, MulAUsed)
MulBMag == MagOf(mulIn.b, MulBUsed)
MulLen == MP_MIN(mul.digs, MulAUsed + MulBUsed)

\* the structure o is well formed: its buffer is allocated, holds alloc
\* digits, each in [0, R), used of them significant, the top one non-zero
Canonical(o) ==
    /\ o.dp # NULL_DP
    /\ heap[o.dp].live
    /\ Len(heap[o.dp].d) = o.alloc
    /\ o.used <= o.alloc
    /\ \A i \in 1 .. o.alloc : heap[o.dp].d[i] \in Digit
    /\ o.used > 0 => heap[o.dp].d[o.used] # 0

\* C1: a successful s_mp_mul_comba(a, b, c, digs) leaves c with exactly the
\* low min(digs, used(a)+used(b)) digits of |a|*|b|, in canonical form
\* (every digit in [0, R), top digit non-zero), for every digs.
C1_LowDigitsOfProduct ==
    MulDone =>
        /\ Canonical(obj[mul.c])
        /\ obj[mul.c].used <= MulLen
        /\ ObjMag(heap, obj[mul.c]) = (MulAMag * MulBMag) % (MP_RADIX ^ MulLen)

\* a product cut below its full length whose columns needed the unrolled
\* loop and all three carries
C1_Witness ==
    /\ MulDone
    /\ mul.digs < MulAUsed + MulBUsed
    /\ mul.un >= 4
    /\ ObjMag(heap, obj[mul.c]) # MulAMag * MulBMag
    /\ obj[mul.c].used = mul.digs
    /\ mul.digs > MaxUsed

\* C4: with the destination being an operand, the result is the one a call
\* with a separate destination leaves (same used, same digits), and while
\* the columns are computed the operands still hold their original digits.
C4_AliasSafe ==
    /\ (MulDone /\ mul_Aliased(mul.a, mul.b, mul.c)) =>
          LET sep == mul_Separate(mulIn.a, mulIn.b, mul.digs)
              C == obj[mul.c]
          IN  /\ C.used = sep.used
              /\ SubSeq(heap[C.dp].d, 1, C.used) = SubSeq(sep.d, 1, sep.used)
    /\ mul.pc = "loop" =>
          /\ obj[mul.a] = mulIn.obj[mul.a]
          /\ obj[mul.b] = mulIn.obj[mul.b]
          /\ SubSeq(heap[obj[mul.a].dp].d, 1, MulAUsed) = mulIn.a
          /\ SubSeq(heap[obj[mul.b].dp].d, 1, MulBUsed) = mulIn.b

\* a squaring in place, a = a * a, whose low columns were stored before the
\* high columns read the same digits of a
C4_Witness ==
    /\ MulDone
    /\ mul.a = mul.c
    /\ mul.b = mul.c
    /\ MulAUsed = MaxUsed
    /\ mul.digs >= 2 * MaxUsed
    /\ obj[mul.c].used > MaxUsed

\* C10: every read a->dp[tx+iz] is at an index in [0, used(a)), every read
\* b->dp[ty-iz] at an index in [0, used(b)), every store c_->dp[ix] at an
\* index in [0, min(digs, used(a)+used(b))), which the capacity of c_
\* covers; no column at index >= digs is computed.
C10_IndicesInRange ==
    /\ mul.ra \subseteq 0 .. (MulAUsed - 1)
    /\ mul.rb \subseteq 0 .. (MulBUsed - 1)
    /\ mul.wr \subseteq 0 .. (MulLen - 1)
    /\ ~mul.ub
    /\ mul.pc = "loop" =>
          /\ mul.pa = MulLen
          /\ mul.ix <= mul.pa
          /\ mul.pa <= mul.digs
          /\ mul.digs <= obj[mul.c_].alloc
          /\ obj[mul.c_].alloc = Len(heap[obj[mul.c_].dp].d)

\* a column of MaxUsed terms has just been read and stored
C10_Witness ==
    /\ mul.pc = "loop"
    /\ Cardinality(mul.ra) = MaxUsed
    /\ Cardinality(mul.rb) = MaxUsed
    /\ mul.wr = {MaxUsed - 1}

(***************************************************************************)
(* Claims about s_mp_toom_sqr.                                             *)
(***************************************************************************)
SqrDone == sqr.pc = "done" /\ sqr.err = MP_OKAY

\* the operand as it was when the call was made
SqrA == sqr.mem0[sqr.a]

\* reference schoolbook squaring: the sum of all digit products
\* d[i] * d[j] * R^(i+j), taken one by one
RECURSIVE SchoolbookRow(_, _, _)
SchoolbookRow(d, i, j) ==
    IF j > Len(d) THEN 0
    ELSE d[i] * d[j] * (MP_RADIX ^ (i + j - 2)) + SchoolbookRow(d, i, j + 1)

RECURSIVE SchoolbookRows(_, _)
SchoolbookRows(d, i) ==
    IF i > Len(d) THEN 0 ELSE SchoolbookRow(d, i, 1) + SchoolbookRows(d, i + 1)

SchoolbookSqr(d) == SchoolbookRows(d, 1)

\* C2: for every non-negative canonical a of any digit count (B = 0
\* included), a successful s_mp_toom_sqr(a, b) leaves b canonical and equal
\* to the schoolbook square of a.
C2_SquareIsSchoolbook ==
    (SqrDone /\ SqrA.sign = MP_ZPOS) =>
        /\ CanonicalVal(sqr.mem[sqr.b])
        /\ sqr.mem[sqr.b] = MkVal(MP_ZPOS, DigitsOf(SchoolbookSqr(SqrA.dp)))

\* a three-limb operand (B >= 2) has been squared
C2_Witness ==
    /\ SqrDone
    /\ SqrA.sign = MP_ZPOS
    /\ sqr.B >= 2
    /\ SqrA.used > 3 * sqr.B
    /\ sqr.mem[sqr.b].used = 2 * SqrA.used

\* C3: whenever s_mp_toom_sqr returns an error, whichever call failed, the
\* destination b holds the value (sign, used, digits) it held before.
C3_DestinationKeptOnFailure ==
    (sqr.pc = "done" /\ sqr.err # MP_OKAY) =>
        sqr.mem[sqr.b] = sqr.mem0[sqr.b]

\* the call that is about to be made
SqrIns == sqr_Prog(sqr.B)[sqr.i]

\* C6: at each mp_div_2 step the dividend is even and at each mp_div_3
\* step it is a multiple of 3: every division of the interpolation is exact.
C6_DivisionsExact ==
    sqr.pc = "run" =>
        LET x == sqr_Rd(sqr, SqrIns.x)
        IN  /\ SqrIns.op = "mp_div_2" => MagOf(x.dp, x.used) % 2 = 0
            /\ SqrIns.op = "mp_div_3" => MagOf(x.dp, x.used) % 3 = 0

\* the last division by 3 is about to divide a non-zero w3 of a
\* three-limb operand
C6_Witness ==
    /\ sqr.pc = "run"
    /\ SqrIns.line = 176
    /\ sqr.B >= 2
    /\ sqr.t["w3"].used > 0
    /\ sqr.t["w1"].used > 0

\* the source lines of the interpolation
SqrInterpolationLines == { sqr_Interpolate[k].line : k \in 1 .. Len(sqr_Interpolate) }

\* the quantities of the interpolation: the five w and the scratch tmp1
SqrInterpolated == {"w0", "w1", "w2", "w3", "w4", "tmp1"}

\* running prog from its n-th call in state s, all calls successful: some
\* interpolation call leaves one of the quantities in rs negative
RECURSIVE sqr_GoesNegative(_, _, _, _)
sqr_GoesNegative(s, prog, n, rs) ==
    IF n > Len(prog) THEN FALSE
    ELSE LET s2 == sqr_Do(s, prog[n])
         IN  IF /\ prog[n].line \in SqrInterpolationLines
                /\ \E r \in rs : s2.t[r].sign = MP_NEG
             THEN TRUE
             ELSE sqr_GoesNegative(s2, prog, n + 1, rs)

\* the routine started on the non-negative operand a
SqrStart(a) ==
    [SqrIdle EXCEPT !.pc = "run", !.i = 1, !.live = SqrTemps,
                    !.mem = [o \in {"X", "Y"} |-> IF o = "X" THEN a ELSE ZeroVal],
                    !.B = sqr_B(a.used)]

\* C9 as stated: there is a non-negative a for which one of w1, w2, w3 or
\* the scratch tmp1 is negative after some step of the interpolation
\* (looked for, where a call is made, among all the operands of the model).
C9_SomeIntermediateNegative ==
    sqr.pc = "call" =>
        \E d \in CanonSeqs(MaxSqrUsed) :
          LET a == MkVal(MP_ZPOS, d)
          IN  sqr_GoesNegative(SqrStart(a), sqr_Prog(sqr_B(a.used)), 1,
                               SqrInterpolated)

\* C9 (amended): for every non-negative a, after every step of the
\* interpolation each of w0 .. w4 and the scratch tmp1 is non-negative.
C9_IntermediatesNonNegative ==
    (SqrA.sign = MP_ZPOS /\ sqr.line \in SqrInterpolationLines) =>
        \A r \in SqrInterpolated : sqr.t[r].sign = MP_ZPOS

\* the subtraction w3 - 8*w4 (line 150) has left a positive w3 and a
\* positive w1 for a three-limb operand
C9_Witness ==
    /\ sqr.pc = "run"
    /\ sqr.line = 150
    /\ SqrA.sign = MP_ZPOS
    /\ sqr.B >= 1
    /\ sqr.t["w3"].used > 0
    /\ sqr.t["w1"].used > 0
    /\ sqr.t["w2"].used > 0

(***************************************************************************)
(* Claims about both s_mp_toom_sqr and s_mp_mul_comba.                     *)
(***************************************************************************)
\* mp_init_multi failed: the routine returned from line 15
SqrInitFailed == sqr.pc = "done" /\ sqr.line = 14

\* C7: when s_mp_toom_sqr returns after its nine temporaries were
\* initialised, each has been released exactly once (and none when the
\* initialisation itself failed); when s_mp_mul_comba returns, tmp's buffer
\* was never allocated or now belongs to c, whose previous buffer was
\* released: no buffer is left that the caller's integers do not own.
C7_NoTemporaryLeaks ==
    /\ sqr.pc = "done" =>
          /\ sqr.live = {}
          /\ \A r \in SqrTemps : sqr.nrel[r] = IF SqrInitFailed THEN 0 ELSE 1
    /\ sqr.pc \in {"run", "LBL_ERR"} =>
          /\ sqr.live = SqrTemps
          /\ \A r \in SqrTemps : sqr.nrel[r] = 0
    /\ mul.pc = "done" =>
          /\ \A k \in BufIds :
               heap[k].live => \E o \in CallerObjs : obj[o].dp = k
          /\ \A o \in CallerObjs :
               obj[o].dp # NULL_DP => heap[obj[o].dp].live
          /\ mul_Aliased(mul.a, mul.b, mul.c) =>
               IF mul.err = MP_OKAY
               THEN /\ obj[mul.c].dp = TmpBuf
                    /\ ~heap[mulIn.obj[mul.c].dp].live
               ELSE /\ ~heap[TmpBuf].live
                    /\ obj[mul.c] = mulIn.obj[mul.c]

\* s_mp_toom_sqr has returned an error from one of the final additions,
\* with all nine temporaries released
C7_Witness ==
    /\ sqr.pc = "done"
    /\ sqr.err = MP_MEM
    /\ sqr.line = 203
    /\ \A r \in SqrTemps : sqr.nrel[r] = 1

\* C8: s_mp_toom_sqr of zero leaves used == 0 and the POSITIVE sign;
\* s_mp_mul_comba with an operand of length zero leaves, for any other
\* operand, any digs and any previous destination, used == 0, the POSITIVE
\* sign and no non-zero digit in the destination's buffer.
C8_ZeroResult ==
    /\ (SqrDone /\ SqrA.used = 0) =>
          /\ sqr.mem[sqr.b].used = 0
          /\ sqr.mem[sqr.b].sign = MP_ZPOS
    /\ (MulDone /\ (MulAUsed = 0 \/ MulBUsed = 0)) =>
          /\ obj[mul.c].used = 0
          /\ obj[mul.c].sign = MP_ZPOS
          /\ \A i \in 1 .. Len(heap[obj[mul.c].dp].d) :
               heap[obj[mul.c].dp].d[i] = 0

\* a long negative destination has been overwritten by 0 * a
C8_Witness ==
    /\ MulDone
    /\ MulAUsed = MaxUsed
    /\ MulBUsed = 0
    /\ mul.c = "z"
    /\ mulIn.obj["z"].sign = MP_NEG
    /\ mulIn.obj["z"].used = MaxOld
    /\ mul.digs = MaxUsed
    /\ obj["z"].used = 0

====
